---- MODULE Spec2Model ----
(***************************************************************************)
(* Model of the TipDistribution React component                            *)
(* (src/src/TipDistribution.tsx): its state (useState hooks), its event    *)
(* handlers and effects, the async calculateTips function, and the live    *)
(* distribution table computed at every render.                            *)
(*                                                                         *)
(* Number representation:                                                  *)
(*   hours            integers (the hour inputs have step 1)               *)
(*   role multiplier  the decimal literal in tenths (0.8 is 8)             *)
(*   restaurantShare  the number typed into the Restaurant % input, in     *)
(*                    tenths of a percent (0.02 is 20)                     *)
(*   tips             the number parsed from the tips input, in cents      *)
(*   points, proportions and raw amounts are the IEEE-754 doubles the      *)
(*   source computes from these; rounded amounts are cents.                *)
(* Dates are day numbers, day 0 being 2024-03-25; the time zone of the     *)
(* browser is part of the state.                                           *)
(***************************************************************************)
EXTENDS Integers, Sequences, FiniteSets, TLC

VARIABLES
    totalTips,        \* string of the tips input
    employees,        \* sequence of [id, name, type]
    hoursGrid,        \* id -> (date -> hours)
    weekStart,        \* first date of the selected week
    results,          \* CalculationResult[] of the last successful /calculate
    isSaved,
    error,
    restaurantShare,  \* tenths of a percent
    runs,             \* calculateTips invocations suspended at an await
    loadState,        \* the mount effect's fetch of /employees
    rows,             \* finalRows of the last render of the live distribution
    timeZone          \* the time zone Date works in; it never changes

vars == <<totalTips, employees, hoursGrid, weekStart, results, isSaved, error,
          restaurantShare, runs, loadState, rows, timeZone>>

-----------------------------------------------------------------------------
(* Bounds of the model *)

MaxEmployees == 2
MaxId == 3
MaxInFlight == 1

-----------------------------------------------------------------------------
(* Generic helpers *)

RECURSIVE SumSeq(_)
SumSeq(s) == IF s = <<>> THEN 0 ELSE Head(s) + SumSeq(Tail(s))

Max2(a, b) == IF a >= b THEN a ELSE b

Abs(a) == IF a < 0 THEN -a ELSE a

RECURSIVE GCD(_, _)
GCD(a, b) == IF b = 0 THEN a ELSE GCD(b, a % b)

-----------------------------------------------------------------------------
(* Natural numbers of any size, as sequences of limbs, least limb first.   *)
(* They carry the 53-bit significands of the doubles and the exact         *)
(* products and quotients that are rounded to them.                        *)

Base == 32768
LimbBits == 15

\* the element of a one-element set: The({F(v) : v \in {e}}) is F of the
\* value of e
The(S) == CHOOSE v \in S : TRUE

At(a, i) == IF i \in 1..Len(a) THEN a[i] ELSE 0

\* the index of the highest limb that is not 0; 0 for the number 0
TopIndex(a) ==
    IF \A i \in 1..Len(a) : a[i] = 0 THEN 0
    ELSE CHOOSE i \in 1..Len(a) : a[i] # 0 /\ \A j \in (i + 1)..Len(a) : a[j] = 0

BigIsZero(a) == \A i \in 1..Len(a) : a[i] = 0
Trim(a) == SubSeq(a, 1, TopIndex(a))

\* n >= 0
BigOfInt(n) == Trim(<<n % Base, (n \div Base) % Base, n \div (Base * Base)>>)

\* the value of a number below Base^3 (Base^3 for a larger one)
IntOfBig(a) ==
    IF \A i \in 4..Len(a) : a[i] = 0
    THEN SumSeq([i \in 1..3 |-> IF i <= Len(a) THEN a[i] * Base^(i - 1) ELSE 0])
    ELSE Base * Base * Base

\* the number of bits of a
BitLen(a) ==
    The({IF t = 0 THEN 0
         ELSE LimbBits * (t - 1)
                + (CHOOSE b \in 1..LimbBits : a[t] \in 2^(b - 1)..(2^b - 1))
         : t \in {TopIndex(a)}})

\* the limbs of the number whose limbs, not yet carried, are c[k] >= 0:
\* two passes of carries leave limbs of at most Base, and a limb takes one
\* more when a limb of Base below it is followed by limbs of Base - 1 only
Norm(c) ==
    The({The({<<>> \o [k \in 1..Len(s) |->
                        (s[k] + (IF \E j \in 1..(k - 1) :
                                      /\ s[j] = Base
                                      /\ \A i \in (j + 1)..(k - 1) : s[i] = Base - 1
                                 THEN 1 ELSE 0)) % Base]
              : s \in {<<>> \o [k \in 1..Len(v) |->
                                  (v[k] % Base)
                                  + (IF k > 1 THEN v[k - 1] \div Base ELSE 0)]}})
         : v \in {<<>> \o [k \in 1..(Len(c) + 2) |->
                             (At(c, k) % Base) + (At(c, k - 1) \div Base)]}})

BigAdd(a, b) == Norm(<<>> \o [k \in 1..Max2(Len(a), Len(b)) |-> At(a, k) + At(b, k)])

\* a - b for a >= b
BigSub(a, b) ==
    The({<<>> \o [k \in 1..Len(a) |->
                    (d[k] - (IF \E j \in 1..(k - 1) :
                                  d[j] < 0 /\ \A i \in (j + 1)..(k - 1) : d[i] = 0
                             THEN 1 ELSE 0) + Base) % Base]
         : d \in {<<>> \o [k \in 1..Len(a) |-> a[k] - At(b, k)]}})

BigLess(a, b) ==
    \E k \in 1..Max2(Len(a), Len(b)) :
        /\ At(a, k) < At(b, k)
        /\ \A i \in (k + 1)..Max2(Len(a), Len(b)) : At(a, i) = At(b, i)

BigMulSmall(a, m) == Norm(<<>> \o [k \in 1..Len(a) |-> a[k] * m])

\* a * b for a of at most 4 limbs (a significand): column k takes the low
\* halves of the limb products of weight k and the high halves of those of
\* weight k - 1
BigMul(a, b) ==
    Norm(<<>> \o [k \in 1..(Len(b) + 5) |->
                    SumSeq([i \in 1..4 |->
                        ((At(a, i) * At(b, k + 1 - i)) % Base)
                        + ((At(a, i) * At(b, k - i)) \div Base)])])

\* a * 2^s
Shl(a, s) ==
    <<>> \o [k \in 1..(Len(a) + (s \div LimbBits) + 1) |->
               (At(a, k - (s \div LimbBits)) % 2^(LimbBits - (s % LimbBits)))
                   * 2^(s % LimbBits)
               + (At(a, k - (s \div LimbBits) - 1)
                      \div 2^(LimbBits - (s % LimbBits)))]

\* a \div 2^s
Shr(a, s) ==
    <<>> \o [k \in 1..Len(a) |->
               (At(a, k + (s \div LimbBits)) \div 2^(s % LimbBits))
               + (At(a, k + (s \div LimbBits) + 1) % 2^(s % LimbBits))
                     * 2^(LimbBits - (s % LimbBits))]

\* bit i of a (bit 0 is the lowest)
BitOf(a, i) == (At(a, (i \div LimbBits) + 1) \div 2^(i % LimbBits)) % 2

\* some bit of a below bit s is 1
LowBits(a, s) ==
    \E k \in 1..Len(a) :
        \/ k <= (s \div LimbBits) /\ a[k] # 0
        \/ k = (s \div LimbBits) + 1 /\ (a[k] % 2^(s % LimbBits)) # 0

\* long division: the quotient limb r \div d, the largest t with d * t <= r,
\* which is at most 2 below the estimate from the top limbs (the top limb of
\* d is at least Base / 2)
Digit(r, d) ==
    The({The({CHOOSE t \in good : \A u \in good : u <= t
              : good \in {{t \in (IF est > 3 THEN est - 3 ELSE 0)
                                   ..(IF est < Base THEN est ELSE Base - 1) :
                              ~BigLess(r, BigMulSmall(d, t))}}})
         : est \in {(At(r, Len(d) + 1) * Base + At(r, Len(d))) \div d[Len(d)]}})

\* one step of the long division: the next limb x of the dividend goes
\* below the remainder
DivStep(h, x, d) ==
    The({The({[q |-> <<t>> \o h.q, r |-> Trim(BigSub(r, BigMulSmall(d, t)))]
              : t \in {Digit(r, d)}})
         : r \in {IF h.r = <<>> /\ x = 0 THEN <<>> ELSE <<x>> \o h.r}})

\* quotient and remainder of n by d, both without leading zero limbs
RECURSIVE BigDivMod(_, _)
BigDivMod(n, d) ==
    IF Len(n) < Len(d) THEN [q |-> <<>>, r |-> n]
    ELSE DivStep(BigDivMod(Tail(n), d), Head(n), d)

-----------------------------------------------------------------------------
(* The number type: IEEE-754 doubles.  A finite double is                  *)
(* [neg, m, e] with the value (-1)^neg * m * 2^e, m a significand of       *)
(* exactly 53 bits (<<>> for zero); every operation rounds its exact       *)
(* result to the nearest double, a tie to the even significand.  The       *)
(* magnitudes of the model stay far inside the exponent range, so there    *)
(* are no subnormals and no overflow to Infinity.                          *)

MantissaBits == 53

DZero == [neg |-> FALSE, m |-> <<>>, e |-> 0]

\* the double nearest to x * 2^e (sticky: the exact value is a little above):
\* x is cut to 53 bits and goes up by one when the bits cut off are more
\* than a half, or a half and the last bit kept is 1; a significand that
\* reaches 2^53 is halved
RoundTo53(neg, x, e, sticky) ==
    The({IF bl = 0 THEN DZero
         ELSE IF bl <= MantissaBits
         THEN [neg |-> neg, m |-> Trim(Shl(x, MantissaBits - bl)),
               e |-> e + bl - MantissaBits]
         ELSE The({IF q[4] = 2^(MantissaBits - 3 * LimbBits)
                   THEN [neg |-> neg,
                         m   |-> <<0, 0, 0, 2^(MantissaBits - 1 - 3 * LimbBits)>>,
                         e   |-> e + bl - MantissaBits + 1]
                   ELSE [neg |-> neg, m |-> SubSeq(q, 1, 4),
                         e |-> e + bl - MantissaBits]
                   : q \in {BigAdd(Shr(x, bl - MantissaBits),
                               IF /\ BitOf(x, bl - MantissaBits - 1) = 1
                                  /\ \/ sticky
                                     \/ LowBits(x, bl - MantissaBits - 1)
                                     \/ BitOf(x, bl - MantissaBits) = 1
                               THEN <<1>> ELSE <<>>)}})
         : bl \in {BitLen(x)}})

\* the double nearest to (n / d) * 2^e, n and d natural numbers: the
\* quotient of n * 2^k by d has 56 or 57 bits
FlDiv(neg, n, d, e) ==
    IF BigIsZero(n) THEN DZero
    ELSE The({The({RoundTo53(neg, dm.q,
                             e - (MantissaBits + 3 + bd - bn), dm.r # <<>>)
                   : dm \in {BigDivMod(
                        Trim(Shl(n, (MantissaBits + 3 + bd - bn)
                                      + ((LimbBits - (bd % LimbBits)) % LimbBits))),
                        Trim(Shl(d, (LimbBits - (bd % LimbBits)) % LimbBits)))}})
              : bd \in {BitLen(d)}, bn \in {BitLen(n)}})

\* the double of a decimal numeral n / d (a literal of the source, or the
\* result of parseFloat on a decimal string)
DOfRat(n, d) == FlDiv(n < 0, BigOfInt(Abs(n)), BigOfInt(d), 0)

\* the double of an integer
DOfInt(n) == RoundTo53(n < 0, BigOfInt(Abs(n)), 0, FALSE)

DIsZero(a) == a.m = <<>>
DNeg(a) == [neg |-> ~a.neg, m |-> a.m, e |-> a.e]

\* a > 0
DIsPositive(a) == ~a.neg /\ ~DIsZero(a)

\* a * b
DMul(a, b) ==
    IF DIsZero(a) \/ DIsZero(b) THEN DZero
    ELSE RoundTo53(a.neg # b.neg, BigMul(a.m, b.m), a.e + b.e, FALSE)

\* a / b, b not 0
DDiv(a, b) == IF DIsZero(a) THEN DZero ELSE FlDiv(a.neg # b.neg, a.m, b.m, a.e - b.e)

\* a + b: the significands x and y at the lesser exponent are added, or
\* the lesser is taken from the greater, whose sign the result has
DAdd(a, b) ==
    IF DIsZero(a) THEN b
    ELSE IF DIsZero(b) THEN a
    ELSE The({The({RoundTo53(IF less THEN b.neg ELSE a.neg,
                             IF a.neg = b.neg THEN BigAdd(x, y)
                             ELSE BigSub(IF less THEN y ELSE x,
                                         IF less THEN x ELSE y),
                             IF a.e < b.e THEN a.e ELSE b.e, FALSE)
                   : less \in {a.neg # b.neg /\ BigLess(x, y)}})
              : x \in {Shl(a.m, IF a.e > b.e THEN a.e - b.e ELSE 0)},
                y \in {Shl(b.m, IF b.e > a.e THEN b.e - a.e ELSE 0)}})

\* a - b
DSub(a, b) == DAdd(a, DNeg(b))

\* |a| < |b|
MagLess(a, b) ==
    IF DIsZero(b) THEN FALSE
    ELSE IF DIsZero(a) THEN TRUE
    ELSE a.e < b.e \/ (a.e = b.e /\ BigLess(a.m, b.m))

\* a < b
DLess(a, b) ==
    IF DIsZero(a) /\ DIsZero(b) THEN FALSE
    ELSE IF a.neg /\ ~DIsZero(a)
         THEN IF b.neg /\ ~DIsZero(b) THEN MagLess(b, a) ELSE TRUE
         ELSE IF b.neg /\ ~DIsZero(b) THEN FALSE ELSE MagLess(a, b)

\* Math.abs
MathAbs(a) == [neg |-> FALSE, m |-> a.m, e |-> a.e]

\* Math.floor, as an integer
MathFloor(a) ==
    IF DIsZero(a) THEN 0
    ELSE IF a.e >= 0 THEN (IF a.neg THEN -1 ELSE 1) * IntOfBig(Shl(a.m, a.e))
    ELSE IF ~a.neg THEN IntOfBig(Shr(a.m, -a.e))
    ELSE -(IntOfBig(Shr(a.m, -a.e)) + (IF LowBits(a.m, -a.e) THEN 1 ELSE 0))

\* Math.round, as an integer: the nearest integer, a half rounding towards
\* +Infinity (floor(a + 1/2) on the exact value of a); a magnitude gets a
\* half added when a > 0 and a little less than a half when a < 0
MathRound(a) ==
    IF DIsZero(a) \/ -a.e > MantissaBits + 1 THEN 0
    ELSE (IF a.neg THEN -1 ELSE 1)
         * IntOfBig(IF a.e >= 0 THEN Shl(a.m, a.e)
                    ELSE Shr(BigAdd(a.m, BigSub(Shl(<<1>>, -a.e - 1),
                                                IF a.neg THEN <<1>> ELSE <<>>)),
                             -a.e))

-----------------------------------------------------------------------------
(* Strings and numbers *)

\* Number.prototype.toString / parseInt on employee ids
Digits == <<"1", "2", "3", "4", "5", "6", "7", "8", "9">>
IdToString(n) == Digits[n]
ParseInt(s) == CHOOSE n \in 1..Len(Digits) : Digits[n] = s

\* parseFloat on the strings the tips input is given in the model; cents
ParseFloat(s) ==
    CASE s = ""     -> [nan |-> TRUE,  val |-> 0]
      [] s = "0"    -> [nan |-> FALSE, val |-> 0]
      [] s = "3"    -> [nan |-> FALSE, val |-> 300]
      [] s = "5"    -> [nan |-> FALSE, val |-> 500]
      [] s = "15"   -> [nan |-> FALSE, val |-> 1500]
      [] s = "80"   -> [nan |-> FALSE, val |-> 8000]
      [] s = "500"  -> [nan |-> FALSE, val |-> 50000]
      [] s = "-40"  -> [nan |-> FALSE, val |-> -4000]

\* parseFloat(x) || 0
OrZero(p) == IF p.nan THEN 0 ELSE p.val

UpperCase == "ABCDEFGHIJKLMNOPQRSTUVWXYZ"
LowerCase == "abcdefghijklmnopqrstuvwxyz"

\* String.prototype.toLowerCase on a string of at most one character
lowerChar(c) ==
    IF \E k \in 1..Len(UpperCase) : SubSeq(UpperCase, k, k) = c
    THEN LET k == CHOOSE j \in 1..Len(UpperCase) : SubSeq(UpperCase, j, j) = c
         IN SubSeq(LowerCase, k, k)
    ELSE c

\* String.prototype.toLowerCase (on ASCII strings): character by character
RECURSIVE toLowerCase(_)
toLowerCase(t) ==
    IF Len(t) <= 1 THEN lowerChar(t)
    ELSE toLowerCase(SubSeq(t, 1, Len(t) \div 2))
           \o toLowerCase(SubSeq(t, (Len(t) \div 2) + 1, Len(t)))

-----------------------------------------------------------------------------
(* Week dates and totals *)

TimeZones == {"UTC", "Asia/Tokyo", "Europe/London"}

\* British Summer Time 2024: the local days whose midnight is in summer time
\* are 2024-04-01 (day 7) to 2024-10-27 (day 216)
SummerFirst == 7
SummerLast == 216

\* hours that local time is ahead of UTC at the local midnight of a day
utcOffset(zone, day) ==
    CASE zone = "Asia/Tokyo"    -> 9
      [] zone = "Europe/London" -> IF day \in SummerFirst..SummerLast THEN 1 ELSE 0
      [] OTHER                  -> 0

\* new Date(iso + 'T00:00:00') is the local midnight of the day;
\* toISOString().slice(0, 10) is the UTC date of that instant
toISODate(zone, day) == IF utcOffset(zone, day) > 0 THEN day - 1 ELSE day

DaysPerWeek == 7
getWeekDates(startIso) ==
    [i \in 1..DaysPerWeek |-> toISODate(timeZone, startIso + (i - 1))]

\* (hoursGrid[id] && hoursGrid[id][d]) || 0
CellOrZero(grid, id, d) ==
    IF id \in DOMAIN grid /\ d \in DOMAIN grid[id] THEN grid[id][d] ELSE 0

\* getWeekDates(weekStart).reduce((s, d) => s + ..., 0): a date that is in the
\* list twice is added twice
WeekTotal(grid, ws, id) ==
    SumSeq([i \in 1..DaysPerWeek |-> CellOrZero(grid, id, getWeekDates(ws)[i])])

RECURSIVE SumValues(_)
SumValues(f) ==
    IF DOMAIN f = {} THEN 0
    ELSE LET k == CHOOSE x \in DOMAIN f : TRUE
         IN f[k] + SumValues([x \in DOMAIN f \ {k} |-> f[x]])

\* Object.values(hoursGrid[e.id] || {}).reduce(...): every stored date
GridTotal(grid, id) == IF id \in DOMAIN grid THEN SumValues(grid[id]) ELSE 0

employeeTotals(emps, grid, ws) ==
    [i \in 1..Len(emps) |->
        [id    |-> emps[i].id,
         name  |-> IF emps[i].name = "" THEN "Unnamed" ELSE emps[i].name,
         total |-> WeekTotal(grid, ws, emps[i].id),
         type  |-> IF emps[i].type = "" THEN "waiter" ELSE emps[i].type]]

-----------------------------------------------------------------------------
(* Live distribution *)

\* (mutant) no default: a type that is not in the table weighs nothing
getMultiplierStrict(t) ==
    LET lower == toLowerCase(t)
    IN CASE lower = "experienced waiter" -> 10
         [] lower = "waiter"             -> 8
         [] lower = "kitchen"            -> 5
         [] lower = "new"                -> 6
         [] OTHER                        -> 0

\* switch ((t || '').toLowerCase()), the multipliers in tenths
getMultiplier(t) ==
    LET lower == toLowerCase(t)
    IN CASE lower = "experienced waiter" -> 10
         [] lower = "waiter"             -> 8
         [] lower = "kitchen"            -> 5
         [] lower = "new"                -> 6
         [] OTHER                        -> 8

\* the doubles of the literals 0, 0.1, ... 1.0
MultValues == [m \in 0..10 |-> DOfRat(m, 10)]

\* the double of the literal of a multiplier
multValue(mult) == MultValues[mult]

totalsWithPoints(emps, grid, ws) ==
    The({[i \in 1..Len(et) |->
            The({[id |-> et[i].id, name |-> et[i].name, total |-> et[i].total,
                  type |-> et[i].type, mult |-> mult,
                  points |-> DMul(DOfInt(et[i].total), multValue(mult))]
                 : mult \in {getMultiplier(et[i].type)}})]
         : et \in {employeeTotals(emps, grid, ws)}})

\* totalsWithPoints.reduce((s, e) => s + e.points, 0) over the first k
RECURSIVE sumPoints(_, _)
sumPoints(twp, k) ==
    IF k = 0 THEN DZero ELSE DAdd(sumPoints(twp, k - 1), twp[k].points)

totalEmployeePoints(twp) == sumPoints(twp, Len(twp))

\* parseFloat(totalTips) || 0, cents
totalTipsValue(tips) == OrZero(ParseFloat(tips))

\* the double of an amount of cents that parseFloat read
tipsDouble(tipsValue) == DOfRat(tipsValue, 100)

\* the double restaurantShare holds: Math.max(0, v) / 100 for the v typed,
\* which is also the double of the literals 0.02 and 0.03
shareDouble(share) == DDiv(DOfRat(share, 10), DOfInt(100))

Denomination == 5

\* the doubles of the literals 1 and 5
DOne == DOfInt(1)
DDenomination == DOfInt(Denomination)

\* (mutant) Math.floor in place of Math.round
weeklyRoundedFloor(weeklyRaw) ==
    MathFloor(DDiv(weeklyRaw, DDenomination)) * Denomination * 100

\* Math.round(weeklyRaw / 5) * 5, in cents
weeklyRoundedOf(weeklyRaw) ==
    MathRound(DDiv(weeklyRaw, DDenomination)) * Denomination * 100

\* share and tipsValue are the doubles of restaurantShare and totalTipsValue
employeeRow(emp, total, share, tipsValue) ==
    The({The({The({[emp |-> emp, rawPropPoints |-> rawPropPoints, prop |-> prop,
                    weeklyRaw |-> weeklyRaw,
                    weeklyRounded |-> weeklyRoundedOf(weeklyRaw)]
                   : weeklyRaw \in {DMul(prop, tipsValue)}})
              : prop \in {DMul(rawPropPoints, DSub(DOne, share))}})
         : rawPropPoints \in {IF DIsPositive(total)
                              THEN DDiv(emp.points, total) ELSE DZero}})

employeeRows(twp, share, tipsValue) ==
    The({[i \in 1..Len(twp) |-> employeeRow(twp[i], total, share, tipsValue)]
         : total \in {totalEmployeePoints(twp)}})

sumEmployeesRounded(er) == SumSeq([i \in 1..Len(er) |-> er[i].weeklyRounded])

\* (mutant) the restaurant's amount never shown below zero
restaurantAmountClamped(tipsValue, er) ==
    Max2(0, tipsValue - sumEmployeesRounded(er))

\* (mutant) the restaurant's amount rounded to the denomination like the others
restaurantAmountRounded(tipsValue, er) ==
    weeklyRoundedOf(tipsDouble(tipsValue - sumEmployeesRounded(er)))

\* totalTipsValue - sumEmployeesRounded: the tips of the model are whole
\* amounts, on which the subtraction of doubles is exact
restaurantAmount(tipsValue, er) == tipsValue - sumEmployeesRounded(er)

restaurantRow(share, tipsValue, amount) ==
    [emp |-> [id |-> "restaurant", name |-> "Restaurant", total |-> 0,
              type |-> "restaurant", mult |-> 0, points |-> DZero],
     rawPropPoints |-> DZero,
     prop          |-> share,
     weeklyRaw     |-> DMul(share, tipsValue),
     weeklyRounded |-> amount]

\* (mutant) the restaurant row first
joinRowsHouseFirst(er, rr) == <<rr>> \o er

\* [...employeeRows, restaurantRow]
joinRows(er, rr) == er \o <<rr>>

finalRows(emps, grid, ws, tips, share) ==
    The({The({joinRows(er, restaurantRow(shareValue, tipsValue,
                           restaurantAmount(totalTipsValue(tips), er)))
              : er \in {employeeRows(twp, shareValue, tipsValue)}})
         : twp \in {totalsWithPoints(emps, grid, ws)},
           shareValue \in {shareDouble(share)},
           tipsValue \in {tipsDouble(totalTipsValue(tips))}})

-----------------------------------------------------------------------------
(* approxFraction: the fraction shown next to each proportion *)

\* a number that is not finite
Infinity == [neg |-> FALSE, inf |-> TRUE]
isFinite(x) == "inf" \notin DOMAIN x

DefaultMaxDen == 20

\* (mutant) err <= best.err: the last denominator with the least error wins
betterOrEqual(err, bestErr) == ~DLess(bestErr, err)

\* err < best.err
betterThan(err, bestErr) == DLess(err, bestErr)

\* one iteration of the loop: const n = ...; const err = ...; if (...) best = ...
approxStep(x, d, best) ==
    LET n   == MathRound(DMul(x, DOfInt(d)))
        err == MathAbs(DSub(x, DDiv(DOfInt(n), DOfInt(d))))
    IN IF betterThan(err, best.err) THEN [n |-> n, d |-> d, err |-> err] ELSE best

\* for (let d = lo; d <= hi; d++) { ... } entered with best: the iterations
\* lo..mid, then the iterations mid+1..hi on their result
RECURSIVE approxLoop(_, _, _, _)
approxLoop(x, lo, hi, best) ==
    IF lo > hi THEN best
    ELSE IF lo = hi THEN approxStep(x, lo, best)
    ELSE LET mid  == (lo + hi) \div 2
             half == approxLoop(x, lo, mid, best)
         IN IF half.d > 0 THEN approxLoop(x, mid + 1, hi, half) ELSE half

approxFraction(x, maxDen) ==
    IF ~isFinite(x) \/ ~DIsPositive(x) THEN <<0, 1>>
    ELSE LET best == approxLoop(x, 1, maxDen,
                         [n |-> 0, d |-> 1, err |-> DOfInt(1)])
         IN IF best.n = 0 THEN <<0, 1>>
            ELSE LET g == GCD(best.n, best.d)
                 IN <<best.n \div g, best.d \div g>>

\* finalRows.map(r => { const [n, d] = approxFraction(r.prop, 20); ... })
renderFractions(rws) ==
    [i \in 1..Len(rws) |-> approxFraction(rws[i].prop, DefaultMaxDen)]

\* the [n, d] shown in each row of the rendered table
fractions == renderFractions(rows)

-----------------------------------------------------------------------------
(* The allocation as a function of its inputs: the initial states are      *)
(* component states with every combination of the bounded inputs below,    *)
(* and the one action is the render of the live distribution.              *)

Letters == <<"A", "B", "C", "D">>
AllocTotals == {-4, 0, 30, 40}
AllocTypes == {"waiter", "kitchen"}
AllocTips == {"", "3", "500", "-40"}
AllocShares == {0, 20, 1500}

\* the grid of employees 1..n in which employee i has totals[i] hours on the
\* first date of the week and none on the other dates
gridOfTotals(n, totals, ws) ==
    [id \in {IdToString(i) : i \in 1..n} |->
        [d \in {getWeekDates(ws)[k] : k \in 1..DaysPerWeek} |->
            IF d = getWeekDates(ws)[1] THEN totals[ParseInt(id)] ELSE 0]]

InitAlloc ==
    /\ timeZone = "UTC"
    /\ weekStart = 0
    /\ \E n \in 1..MaxEmployees :
         \E named \in [1..n -> BOOLEAN], types \in [1..n -> AllocTypes],
            totals \in [1..n -> AllocTotals] :
            /\ employees = [i \in 1..n |->
                    [id   |-> IdToString(i),
                     name |-> IF named[i] THEN Letters[i] ELSE "",
                     type |-> types[i]]]
            /\ hoursGrid = gridOfTotals(n, totals, weekStart)
    /\ totalTips \in AllocTips
    /\ restaurantShare \in AllocShares
    /\ results = <<>>
    /\ isSaved = FALSE
    /\ error = ""
    /\ runs = <<>>
    /\ loadState = "done"
    /\ rows = <<>>

Render ==
    /\ rows' = finalRows(employees, hoursGrid, weekStart, totalTips, restaurantShare)
    /\ UNCHANGED <<totalTips, employees, hoursGrid, weekStart, results, isSaved,
                   error, restaurantShare, runs, loadState, timeZone>>

NextAlloc == Render

SpecAlloc == InitAlloc /\ [][NextAlloc]_vars

-----------------------------------------------------------------------------
(* The role weights: component states with every combination of the role   *)
(* strings and week totals below, and the render of the live distribution. *)

RoleTypes == {"", "experienced waiter", "waiter", "kitchen", "new", "chef",
              "Kitchen", "NEW", "Experienced Waiter"}
RoleTotals == {0, 2, 5}

InitRole ==
    /\ timeZone = "UTC"
    /\ weekStart = 0
    /\ \E n \in 1..MaxEmployees :
         \E types \in [1..n -> RoleTypes], totals \in [1..n -> RoleTotals] :
            /\ employees = [i \in 1..n |->
                    [id |-> IdToString(i), name |-> Letters[i], type |-> types[i]]]
            /\ hoursGrid = gridOfTotals(n, totals, weekStart)
    /\ totalTips = ""
    /\ restaurantShare = 20
    /\ results = <<>>
    /\ isSaved = FALSE
    /\ error = ""
    /\ runs = <<>>
    /\ loadState = "done"
    /\ rows = <<>>

NextRole == Render

SpecRole == InitRole /\ [][NextRole]_vars

-----------------------------------------------------------------------------
(* The displayed fractions: component states with the week totals and      *)
(* shares below, and the render of the live distribution.                  *)

FracTotals == {0, 1, 2, 3}
FracShares == {0, 20, 25, 500, 1500}

InitFrac ==
    /\ timeZone = "UTC"
    /\ weekStart = 0
    /\ \E n \in 1..MaxEmployees :
         \E totals \in [1..n -> FracTotals] :
            /\ employees = [i \in 1..n |->
                    [id |-> IdToString(i), name |-> Letters[i], type |-> "waiter"]]
            /\ hoursGrid = gridOfTotals(n, totals, weekStart)
    /\ totalTips = ""
    /\ restaurantShare \in FracShares
    /\ results = <<>>
    /\ isSaved = FALSE
    /\ error = ""
    /\ runs = <<>>
    /\ loadState = "done"
    /\ rows = <<>>

NextFrac == Render

SpecFrac == InitFrac /\ [][NextFrac]_vars

-----------------------------------------------------------------------------
(* The component: state after mount, event handlers, effects *)

ids(emps) == {emps[i].id : i \in 1..Len(emps)}

RECURSIVE MaxOf(_)
MaxOf(S) == IF S = {} THEN 0
            ELSE LET x == CHOOSE y \in S : TRUE IN Max2(x, MaxOf(S \ {x}))

RECURSIVE RemoveId(_, _)
RemoveId(emps, id) ==
    IF emps = <<>> THEN <<>>
    ELSE IF Head(emps).id # id THEN <<Head(emps)>> \o RemoveId(Tail(emps), id)
         ELSE RemoveId(Tail(emps), id)

\* (mutant) the effect without the removal of the keys of removed employees
SyncGridKeepAll(emps, grid, ws) ==
    [id \in ids(emps) \cup DOMAIN grid |->
        LET old   == IF id \in DOMAIN grid THEN grid[id] ELSE <<>>
            dates == IF id \in ids(emps)
                     THEN {getWeekDates(ws)[i] : i \in 1..DaysPerWeek} ELSE {}
        IN [d \in (DOMAIN old) \cup dates |->
               IF d \in DOMAIN old THEN old[d] ELSE 0]]

\* the effect on [employees, weekStart]: a cell for every employee and every
\* date of the week, no entry for an id that is not in the list
SyncGrid(emps, grid, ws) ==
    [id \in ids(emps) |->
        LET old   == IF id \in DOMAIN grid THEN grid[id] ELSE <<>>
            dates == {getWeekDates(ws)[i] : i \in 1..DaysPerWeek}
        IN [d \in (DOMAIN old) \cup dates |->
               IF d \in DOMAIN old THEN old[d] ELSE 0]]

\* JSON.parse(JSON.stringify(employees)) of the persist effect and the
\* localStorage fallback
JsonRoundTrip(emps) ==
    [i \in 1..Len(emps) |->
        [id |-> emps[i].id, name |-> emps[i].name, type |-> emps[i].type]]

Rerender ==
    rows' = finalRows(employees', hoursGrid', weekStart', totalTips', restaurantShare')

InitialWeekStart == 0

Init ==
    /\ timeZone \in TimeZones
    /\ totalTips = ""
    /\ employees = <<[id |-> "1", name |-> "", type |-> ""]>>
    /\ weekStart = InitialWeekStart
    /\ hoursGrid = SyncGrid(employees, <<>>, weekStart)
    /\ results = <<>>
    /\ isSaved = FALSE
    /\ error = ""
    /\ restaurantShare = 20
    /\ runs = <<>>
    /\ loadState = "pending"
    /\ rows = finalRows(employees, hoursGrid, weekStart, totalTips, restaurantShare)

\* fetch('/employees') resolved with a JSON body
LoadOk(data) ==
    /\ loadState = "pending"
    /\ loadState' = "done"
    /\ employees' =
         IF Len(data) > 0
         THEN [i \in 1..Len(data) |->
                 [id   |-> IdToString(i),
                  name |-> data[i].name,
                  type |-> IF data[i].role = "" THEN "waiter" ELSE data[i].role]]
         ELSE employees
    /\ hoursGrid' = SyncGrid(employees', hoursGrid, weekStart)
    /\ UNCHANGED <<timeZone, totalTips, weekStart, results, isSaved, error, restaurantShare, runs>>
    /\ Rerender

\* the lists localStorage can hold under 'td_employees_v1' besides the one
\* the persist effect wrote: none or an empty one (<<>>), or the list
\* another tab or an earlier session wrote (setItem can throw)
StoredLists == {<<>>, <<[id |-> "3", name |-> "Zed", type |-> "kitchen"]>>}

\* fetch('/employees') rejected or answered not ok: the list stored in
\* localStorage, parsed, replaces the list when it is not empty
LoadFail(stored) ==
    /\ loadState = "pending"
    /\ loadState' = "done"
    /\ employees' = IF Len(stored) > 0 THEN JsonRoundTrip(stored) ELSE employees
    /\ hoursGrid' = SyncGrid(employees', hoursGrid, weekStart)
    /\ UNCHANGED <<timeZone, totalTips, weekStart, results, isSaved, error, restaurantShare, runs>>
    /\ Rerender

\* (mutant) the id taken from the length of the list
newIdByCount(emps) == Len(emps) + 1

\* Math.max(...employees.map(e => parseInt(e.id)), 0) + 1
newIdOf(emps) == MaxOf({ParseInt(emps[i].id) : i \in 1..Len(emps)} \cup {0}) + 1

addEmployee ==
    /\ Len(employees) < MaxEmployees
    /\ newIdOf(employees) <= MaxId
    /\ LET newId == IdToString(newIdOf(employees))
       IN /\ employees' = Append(employees, [id |-> newId, name |-> "", type |-> "waiter"])
          /\ hoursGrid' = SyncGrid(employees',
                 [id \in DOMAIN hoursGrid \cup {newId} |->
                     IF id = newId THEN <<>> ELSE hoursGrid[id]],
                 weekStart)
    /\ UNCHANGED <<timeZone, totalTips, weekStart, results, isSaved, error, restaurantShare,
                   runs, loadState>>
    /\ Rerender

\* (mutant) without `if (employees.length > 1)`
removeEmployeeUnguarded(id) ==
    /\ employees' = RemoveId(employees, id)
    /\ hoursGrid' = SyncGrid(employees',
           [k \in DOMAIN hoursGrid \ {id} |-> hoursGrid[k]], weekStart)
    /\ UNCHANGED <<timeZone, totalTips, weekStart, results, isSaved, error, restaurantShare,
                   runs, loadState>>
    /\ Rerender

removeEmployee(id) ==
    /\ IF Len(employees) > 1
       THEN /\ employees' = RemoveId(employees, id)
            /\ hoursGrid' = SyncGrid(employees',
                   [k \in DOMAIN hoursGrid \ {id} |-> hoursGrid[k]], weekStart)
       ELSE UNCHANGED <<employees, hoursGrid>>
    /\ UNCHANGED <<timeZone, totalTips, weekStart, results, isSaved, error, restaurantShare,
                   runs, loadState>>
    /\ Rerender

updateEmployee(id, field, value) ==
    /\ employees' = [i \in 1..Len(employees) |->
          IF employees[i].id = id
          THEN IF field = "name" THEN [employees[i] EXCEPT !.name = value]
               ELSE [employees[i] EXCEPT !.type = value]
          ELSE employees[i]]
    /\ hoursGrid' = SyncGrid(employees', hoursGrid, weekStart)
    /\ UNCHANGED <<timeZone, totalTips, weekStart, results, isSaved, error, restaurantShare,
                   runs, loadState>>
    /\ Rerender

setWeekStart(w) ==
    /\ weekStart' = w
    /\ hoursGrid' = SyncGrid(employees, hoursGrid, w)
    /\ UNCHANGED <<timeZone, totalTips, employees, results, isSaved, error, restaurantShare,
                   runs, loadState>>
    /\ Rerender

updateHours(employeeId, dateStr, value) ==
    /\ hoursGrid' = [id \in DOMAIN hoursGrid \cup {employeeId} |->
          IF id = employeeId
          THEN LET old == IF id \in DOMAIN hoursGrid THEN hoursGrid[id] ELSE <<>>
               IN [d \in DOMAIN old \cup {dateStr} |->
                      IF d = dateStr THEN value ELSE old[d]]
          ELSE hoursGrid[id]]
    /\ UNCHANGED <<timeZone, totalTips, employees, weekStart, results, isSaved, error,
                   restaurantShare, runs, loadState>>
    /\ Rerender

setTotalTips(s) ==
    /\ totalTips' = s
    /\ UNCHANGED <<timeZone, employees, hoursGrid, weekStart, results, isSaved, error,
                   restaurantShare, runs, loadState>>
    /\ Rerender

\* Math.max(0, v) / 100, v in tenths of a percent, the result in thousandths
shareFromInput(v) == Max2(0, v)

\* onChange of the Restaurant % input; v is parseFloat(e.target.value)
setRestaurantShareInput(v) ==
    /\ restaurantShare' = IF v.nan THEN restaurantShare ELSE shareFromInput(v.val)
    /\ UNCHANGED <<timeZone, totalTips, employees, hoursGrid, weekStart, results, isSaved,
                   error, runs, loadState>>
    /\ Rerender

setThreePercent ==
    /\ restaurantShare' = 30
    /\ UNCHANGED <<timeZone, totalTips, employees, hoursGrid, weekStart, results, isSaved,
                   error, runs, loadState>>
    /\ Rerender

-----------------------------------------------------------------------------
(* calculateTips: the synchronous part up to the first await, then one     *)
(* step per response                                                       *)

ErrTips == "Please enter a valid total tips amount"
ErrEmployees == "Please add at least one employee with hours worked"

\* the message of the error thrown by a request that ends as outcome says:
\* line 179 for a response that is not ok, fetch for a request that is
\* rejected, response.json() for a body that is no JSON
errorMessage(outcome) ==
    CASE outcome = "notok"   -> "Failed to calculate tips"
      [] outcome = "reject"  -> "Failed to fetch"
      [] outcome = "badjson" -> "Unexpected token < in JSON at position 0"

\* setError('Error calculating or saving tips: ' + (err as Error).message)
catchError(outcome) == "Error calculating or saving tips: " \o errorMessage(outcome)

CalculateOutcomes == {"ok", "notok", "reject", "badjson"}
SaveOutcomes == {"ok", "notok", "reject"}

\* !totalTips || parseFloat(totalTips) <= 0
tipsRejected(tips) ==
    tips = "" \/ (~ParseFloat(tips).nan /\ ParseFloat(tips).val <= 0)

\* Object.values(hoursGrid[e.id] || {}).reduce((s, v) => s + (v || 0), 0)
calcTotalHours(grid, ws, id) == GridTotal(grid, id)

employeesWithTotals(emps, grid, ws) ==
    [i \in 1..Len(emps) |->
        [id |-> emps[i].id, name |-> emps[i].name,
         totalHours |-> calcTotalHours(grid, ws, emps[i].id),
         type |-> emps[i].type]]

RECURSIVE validOf(_)
validOf(ewt) ==
    IF ewt = <<>> THEN <<>>
    ELSE IF Head(ewt).name # "" /\ Head(ewt).totalHours > 0
         THEN <<Head(ewt)>> \o validOf(Tail(ewt))
         ELSE validOf(Tail(ewt))

validEmployees(emps, grid, ws) == validOf(employeesWithTotals(emps, grid, ws))

requestBody(tips, valid) ==
    [total_tips |-> ParseFloat(tips).val,
     employees  |-> [i \in 1..Len(valid) |->
         [name |-> valid[i].name, hours |-> valid[i].totalHours,
          role |-> valid[i].type]]]

\* the documented answer of POST /calculate: one entry per employee sent
\* (the numbers the backend computes are not modelled)
calculateResponse(body) ==
    [i \in 1..Len(body.employees) |->
        [employee_name |-> body.employees[i].name]]

RemoveAt(s, i) == [k \in 1..(Len(s) - 1) |-> IF k < i THEN s[k] ELSE s[k + 1]]

\* the validation of calculateTips: the error it sets, "" when it goes on
validationError(tips, emps, grid, ws) ==
    IF tipsRejected(tips) THEN ErrTips
    ELSE IF validEmployees(emps, grid, ws) = <<>> THEN ErrEmployees
    ELSE ""

\* a click on Calculate & Save; a click that would start a run is taken only
\* while fewer than MaxInFlight runs are suspended
calculateTips ==
    /\ validationError(totalTips, employees, hoursGrid, weekStart) = ""
          => Len(runs) < MaxInFlight
    /\ isSaved' = FALSE
    /\ error' = validationError(totalTips, employees, hoursGrid, weekStart)
    /\ IF error' # ""
       THEN runs' = runs
       ELSE runs' = Append(runs,
                 [pc   |-> "calculate",
                  body |-> requestBody(totalTips,
                              validEmployees(employees, hoursGrid, weekStart))])
    /\ UNCHANGED <<timeZone, totalTips, employees, hoursGrid, weekStart, results,
                   restaurantShare, loadState>>
    /\ Rerender

\* (mutant) without `if (!response.ok) throw`: after a response that is not
\* ok the run goes on to /save, with the results it had
calculateReturnsUnchecked(i, outcome) ==
    /\ i \in 1..Len(runs)
    /\ runs[i].pc = "calculate"
    /\ IF outcome \in {"ok", "notok"}
       THEN /\ results' = IF outcome = "ok"
                           THEN calculateResponse(runs[i].body) ELSE results
            /\ runs' = [runs EXCEPT ![i].pc = "save"]
            /\ error' = error
       ELSE /\ error' = catchError(outcome)
            /\ runs' = RemoveAt(runs, i)
            /\ results' = results
    /\ UNCHANGED <<timeZone, totalTips, employees, hoursGrid, weekStart, isSaved,
                   restaurantShare, loadState>>
    /\ Rerender

\* the /calculate request ends: with an ok response of JSON ("ok"), a
\* response that is not ok ("notok"), a rejected fetch ("reject"), or an ok
\* response whose body response.json() rejects ("badjson")
calculateReturns(i, outcome) ==
    /\ i \in 1..Len(runs)
    /\ runs[i].pc = "calculate"
    /\ IF outcome = "ok"
       THEN /\ results' = calculateResponse(runs[i].body)
            /\ runs' = [runs EXCEPT ![i].pc = "save"]
            /\ error' = error
       ELSE /\ error' = catchError(outcome)
            /\ runs' = RemoveAt(runs, i)
            /\ results' = results
    /\ UNCHANGED <<timeZone, totalTips, employees, hoursGrid, weekStart, isSaved,
                   restaurantShare, loadState>>
    /\ Rerender

\* the /save request ends: with an ok response, a response that is not ok,
\* or a rejected fetch
saveReturns(i, outcome) ==
    /\ i \in 1..Len(runs)
    /\ runs[i].pc = "save"
    /\ runs' = RemoveAt(runs, i)
    /\ isSaved' = IF outcome = "ok" THEN TRUE ELSE isSaved
    /\ error' = IF outcome = "reject" THEN catchError(outcome) ELSE error
    /\ UNCHANGED <<timeZone, totalTips, employees, hoursGrid, weekStart, results,
                   restaurantShare, loadState>>
    /\ Rerender

-----------------------------------------------------------------------------
(* The inputs the events are given *)

UiNames == {"", "A"}
UiTypes == {"kitchen"}
LiveTypes == {"kitchen", "new"}
UiWeekStarts == {1, 7}
UiHourInputs == {-1, 2}
UiTips == {"", "0", "80"}
NaN == [nan |-> TRUE, val |-> 0]
Num(v) == [nan |-> FALSE, val |-> v]
UiShareInputs == {NaN, Num(-50), Num(25), Num(1500)}
LoadData == {<<>>, <<[name |-> "A", role |-> ""]>>,
             <<[name |-> "", role |-> "kitchen"], [name |-> "A", role |-> "waiter"]>>}

\* the date of the k-th hours input of a row of the grid
inputDate(k) == getWeekDates(weekStart)[k]

\* the lists localStorage can hold when the fetch of /employees fails
LoadStored == {employees} \cup StoredLists

-----------------------------------------------------------------------------
(* The employee list and the hours grid *)

Next ==
    \/ \E data \in LoadData : LoadOk(data)
    \/ \E stored \in LoadStored : LoadFail(stored)
    \/ addEmployee
    \/ \E id \in ids(employees) : removeEmployee(id)
    \/ \E id \in ids(employees), v \in UiNames : updateEmployee(id, "name", v)
    \/ \E id \in ids(employees), v \in UiTypes : updateEmployee(id, "type", v)
    \/ \E w \in UiWeekStarts : setWeekStart(w)
    \/ \E id \in ids(employees), k \in 1..DaysPerWeek, v \in UiHourInputs :
          updateHours(id, inputDate(k), v)

Spec == Init /\ [][Next]_vars

\* the component in a browser whose time zone is UTC
InitUTC == Init /\ timeZone = "UTC"

-----------------------------------------------------------------------------
(* The employee list alone: load, add, remove, rename, a week in which     *)
(* London's clocks change, and hours entered for the employees of the list *)

ListNames == {"A"}
ListHourInputs == {2}
ListWeekStarts == {1}
ListDays == {7}

NextList ==
    \/ \E data \in LoadData : LoadOk(data)
    \/ \E stored \in LoadStored : LoadFail(stored)
    \/ addEmployee
    \/ \E id \in ids(employees) : removeEmployee(id)
    \/ \E id \in ids(employees), v \in ListNames : updateEmployee(id, "name", v)
    \/ \E w \in ListWeekStarts : setWeekStart(w)
    \/ \E id \in ids(employees), k \in ListDays, v \in ListHourInputs :
          updateHours(id, inputDate(k), v)

SpecList == Init /\ [][NextList]_vars

-----------------------------------------------------------------------------
(* Calculate & Save: hours of one or more weeks, the tips, the requests *)

CalcNames == {"A"}
CalcHourInputs == {0, 2}
CalcWeekStarts == {7}
CalcDays == {1, 7}
CalcTips == {"0", "80"}

NextCalc ==
    \/ \E id \in ids(employees), v \in CalcNames : updateEmployee(id, "name", v)
    \/ \E w \in CalcWeekStarts : setWeekStart(w)
    \/ \E id \in ids(employees), k \in CalcDays, v \in CalcHourInputs :
          updateHours(id, inputDate(k), v)
    \/ \E s \in CalcTips : setTotalTips(s)
    \/ calculateTips
    \/ \E i \in 1..MaxInFlight, o \in CalculateOutcomes : calculateReturns(i, o)
    \/ \E i \in 1..MaxInFlight, o \in SaveOutcomes : saveReturns(i, o)

SpecCalc == Init /\ [][NextCalc]_vars

-----------------------------------------------------------------------------
(* Calculate & Save alone: one employee's name and hours, the tips, and    *)
(* the runs of calculateTips                                               *)

SaveNames == {"", "A", "B"}
SaveHourInputs == {0, 2}
SaveTips == {"", "0", "80", "500"}

NextSave ==
    \/ \E id \in ids(employees), v \in SaveNames : updateEmployee(id, "name", v)
    \/ \E id \in ids(employees), v \in SaveHourInputs :
          updateHours(id, inputDate(1), v)
    \/ \E s \in SaveTips : setTotalTips(s)
    \/ calculateTips
    \/ \E i \in 1..MaxInFlight, o \in CalculateOutcomes : calculateReturns(i, o)
    \/ \E i \in 1..MaxInFlight, o \in SaveOutcomes : saveReturns(i, o)

SpecSave == InitUTC /\ [][NextSave]_vars

-----------------------------------------------------------------------------
(* The settings of the live distribution *)

LiveHourInputs == {-1, 2}
LiveNames == {"A"}
LiveTips == {"", "80"}

NextLive ==
    \/ addEmployee
    \/ \E v \in UiShareInputs : setRestaurantShareInput(v)
    \/ setThreePercent
    \/ \E s \in LiveTips : setTotalTips(s)
    \/ \E id \in ids(employees), v \in LiveNames : updateEmployee(id, "name", v)
    \/ \E id \in ids(employees), v \in LiveTypes : updateEmployee(id, "type", v)
    \/ \E id \in ids(employees), v \in LiveHourInputs :
          updateHours(id, inputDate(1), v)

SpecLive == InitUTC /\ [][NextLive]_vars

-----------------------------------------------------------------------------
(* Rounding: pools and shares that put raw amounts on half a denomination *)

RoundTips == {"5", "15", "500"}
RoundShareInputs == {Num(0), Num(500), Num(1500)}
RoundHourInputs == {0, 2}
RoundTypes == {"new", "experienced waiter"}

NextRound ==
    \/ addEmployee
    \/ \E v \in RoundShareInputs : setRestaurantShareInput(v)
    \/ \E s \in RoundTips : setTotalTips(s)
    \/ \E id \in ids(employees), v \in RoundTypes : updateEmployee(id, "type", v)
    \/ \E id \in ids(employees), v \in RoundHourInputs :
          updateHours(id, inputDate(1), v)

SpecRound == InitUTC /\ [][NextRound]_vars

-----------------------------------------------------------------------------
(* Properties *)

Rendered == rows # <<>>
NEmp == Len(rows) - 1
HouseAmount == rows[Len(rows)].weeklyRounded
SumEmployeeAmounts == SumSeq([i \in 1..NEmp |-> rows[i].weeklyRounded])
PoolValue == totalTipsValue(totalTips)
PoolPositive == PoolValue > 0
ShareInRange == restaurantShare \in 0..999
Eligible(i) ==
    /\ employees[i].name # ""
    /\ WeekTotal(hoursGrid, weekStart, employees[i].id) > 0
SomeEligible == \E i \in 1..Len(employees) : Eligible(i)
ValidInput == PoolPositive /\ ShareInRange /\ SomeEligible

\* the double of an amount of cents
Amount(cents) == DOfRat(cents, 100)

\* C1: for every valid input (pool > 0, share in [0,1), an eligible employee)
\* the rounded amounts of all rows, the Restaurant row included, sum to the
\* pool exactly.
C1_Conservation ==
    (Rendered /\ ValidInput) =>
        SumSeq([i \in 1..Len(rows) |-> rows[i].weeklyRounded]) = PoolValue

\* a valid input in which rounding changed some employee's amount
C1_Witness ==
    /\ Rendered /\ ValidInput
    /\ \E i \in 1..NEmp : rows[i].weeklyRaw # Amount(rows[i].weeklyRounded)

\* the hours stored for the dates of the selected week, every date once
SelectedWeekHours(grid, ws, id) ==
    IF id \in DOMAIN grid
    THEN SumValues([d \in {getWeekDates(ws)[k] : k \in 1..DaysPerWeek}
                            \cap DOMAIN grid[id] |-> grid[id][d]])
    ELSE 0

\* C2: whenever calculateTips sends a request, the hours it sends for each
\* employee are the sum of that employee's cells over the dates of the
\* selected week (a missing cell counting 0), not the hours of other weeks.
C2_WeeklyAggregation ==
    [][Len(runs') > Len(runs) =>
        LET sent == runs'[Len(runs')].body.employees
        IN \A k \in 1..Len(sent) :
              \E i \in 1..Len(employees) :
                 /\ employees[i].name = sent[k].name
                 /\ sent[k].hours =
                       SelectedWeekHours(hoursGrid, weekStart, employees[i].id)]_vars

RECURSIVE EligibleOnly(_, _)
EligibleOnly(emps, k) ==
    IF k > Len(emps) THEN <<>>
    ELSE IF Eligible(k) THEN <<emps[k]>> \o EligibleOnly(emps, k + 1)
         ELSE EligibleOnly(emps, k + 1)

\* the distribution computed from the eligible employees only
RowsOfEligible ==
    finalRows(EligibleOnly(employees, 1), hoursGrid, weekStart, totalTips,
              restaurantShare)

HoursNonNegative ==
    \A i \in 1..Len(employees) :
        WeekTotal(hoursGrid, weekStart, employees[i].id) >= 0

\* C3: an employee with an empty name or with zero hours in the week
\* contributes nothing to the total points and changes no other employee's
\* proportion or amount: with hours that are all non-negative, every eligible
\* employee's row is its row in the distribution computed from the eligible
\* employees only.
C3_ZeroHoursExclusion ==
    (Rendered /\ HoursNonNegative) =>
        \A i \in 1..Len(employees) :
            Eligible(i) =>
                \E k \in 1..(Len(RowsOfEligible) - 1) :
                    /\ RowsOfEligible[k].emp.id = employees[i].id
                    /\ RowsOfEligible[k] = rows[i]

\* C4: the restaurant share used by the distribution always lies in [0, 0.99].
C4_HouseShareClamped == restaurantShare \in 0..990

\* C5: for every valid input every employee row's rounded amount is >= 0.
C5_EmployeeAmountsNonNegative ==
    (Rendered /\ ValidInput) => \A i \in 1..NEmp : rows[i].weeklyRounded >= 0

\* the claim's input is invalid: the pool is not positive, or no employee has
\* a name and positive hours in the selected week
InvalidInput == ~PoolPositive \/ ~SomeEligible

\* C6: calculateTips run on an invalid input ends with an error set and
\* issues no calculate request.
C6_InvalidInputRejected ==
    [][(InvalidInput /\ calculateTips) =>
        (error' # "" /\ runs' = runs)]_vars

\* C7: the Restaurant amount is the exact residual pool - sum(employee
\* amounts); when rounding over-allocates it is negative, it is not rounded
\* to the denomination, and no error is set.
C7_NegativeResidue ==
    (Rendered /\ ValidInput) =>
        /\ HouseAmount = PoolValue - SumEmployeeAmounts
        /\ (SumEmployeeAmounts > PoolValue => HouseAmount < 0)
        /\ error = ""

\* a valid input whose Restaurant amount is negative and no multiple of $5
C7_Witness ==
    /\ Rendered /\ ValidInput
    /\ HouseAmount < 0
    /\ HouseAmount % (Denomination * 100) # 0

ScenarioInput ==
    /\ totalTips = "500"
    /\ restaurantShare = 0
    /\ Len(employees) = 2
    /\ employees[1].name = "A" /\ employees[2].name = "B"
    /\ employees[1].type = "waiter" /\ employees[2].type = "waiter"
    /\ WeekTotal(hoursGrid, weekStart, employees[1].id) = 40
    /\ WeekTotal(hoursGrid, weekStart, employees[2].id) = 30

\* C8: pool 500, share 0, waiters A (40 h) and B (30 h): points 32 and 24
\* (total 56), amounts 285 and 215, Restaurant 0.
C8_ReferenceScenario ==
    (Rendered /\ ScenarioInput) =>
        /\ rows[1].emp.points = DOfInt(32) /\ rows[2].emp.points = DOfInt(24)
        /\ totalEmployeePoints(<<rows[1].emp, rows[2].emp>>) = DOfInt(56)
        /\ rows[1].weeklyRounded = 28500
        /\ rows[2].weeklyRounded = 21500
        /\ HouseAmount = 0

C8_Witness == Rendered /\ ScenarioInput

\* C9: within one allocation (a positive pool, an eligible employee), an
\* employee with strictly more points has a raw amount and a rounded amount
\* at least as large.
C9_Monotonic ==
    (Rendered /\ PoolPositive /\ SomeEligible) =>
        \A i, j \in 1..NEmp :
            DLess(rows[j].emp.points, rows[i].emp.points) =>
                /\ ~DLess(rows[i].weeklyRaw, rows[j].weeklyRaw)
                /\ rows[j].weeklyRounded <= rows[i].weeklyRounded

\* C10: the rows are the employees in input order followed by exactly one
\* Restaurant row.
C10_StableOrder ==
    Rendered =>
        /\ Len(rows) = Len(employees) + 1
        /\ \A i \in 1..Len(employees) :
              /\ rows[i].emp.id = employees[i].id
              /\ rows[i].emp.id # "restaurant"
        /\ rows[Len(rows)].emp.id = "restaurant"

\* two employees, the second with more points than the first
C10_Witness ==
    /\ Rendered
    /\ Len(employees) >= 2
    /\ DLess(rows[1].emp.points, rows[2].emp.points)

\* the role strings the multiplier table names
KnownRoles == {"experienced waiter", "waiter", "kitchen", "new"}

\* C11: every employee's multiplier lies in (0, 1] (tenths: 1..10), the four
\* roles weigh 1.0, 0.8, 0.5 and 0.6, and an employee whose role is absent or
\* is no role of the table has the multiplier and the points of a waiter
\* with the same hours.
C11_RoleWeights ==
    Rendered =>
        \A i \in 1..NEmp :
            LET t == employees[i].type
                m == rows[i].emp.mult
            IN /\ m \in 1..10
               /\ (t = "experienced waiter" => m = 10)
               /\ (t = "waiter" => m = 8)
               /\ (t = "kitchen" => m = 5)
               /\ (t = "new" => m = 6)
               /\ (toLowerCase(t) \notin KnownRoles =>
                      /\ m = 8
                      /\ rows[i].emp.points =
                            DMul(DOfInt(WeekTotal(hoursGrid, weekStart,
                                                  employees[i].id)),
                                 multValue(getMultiplier("waiter"))))

\* an employee without a role and one with a role outside the table, both
\* with hours, next to each other in the rendered table
C11_Witness ==
    /\ Rendered
    /\ \E i, j \in 1..NEmp :
          /\ employees[i].type = "" /\ employees[j].type = "chef"
          /\ DIsPositive(rows[i].emp.points) /\ DIsPositive(rows[j].emp.points)

\* C12: in every state reached by hour edits and role changes every
\* employee's points (week total * multiplier) are >= 0, and are 0 whenever
\* the week total is 0.
C12_PointsInvariant ==
    Rendered =>
        \A i \in 1..NEmp :
            /\ ~DLess(rows[i].emp.points, DZero)
            /\ (rows[i].emp.total = 0 => DIsZero(rows[i].emp.points))

\* the nearest integer, a half rounding away from zero
RoundHalfAway(a) == IF a.neg THEN -MathRound(MathAbs(a)) ELSE MathRound(a)

\* C13: every employee's rounded amount is round(rawAmount / 5) * 5 with a
\* half rounding away from zero: a multiple of the denomination, at most
\* half a denomination from the raw amount.
C13_RoundHalfAway ==
    Rendered =>
        \A i \in 1..NEmp :
            LET raw == rows[i].weeklyRaw
                unit == Denomination * 100
            IN /\ rows[i].weeklyRounded =
                     RoundHalfAway(DDiv(raw, DDenomination)) * unit
               /\ rows[i].weeklyRounded % unit = 0
               /\ ~DLess(Amount(rows[i].weeklyRounded + (unit \div 2)), raw)
               /\ ~DLess(raw, Amount(rows[i].weeklyRounded - (unit \div 2)))

\* the doubles of the fractions n/d
Quotients ==
    [d \in 1..DefaultMaxDen |->
        [n \in 0..(DefaultMaxDen + 1) |-> DDiv(DOfInt(n), DOfInt(d))]]

\* the distance of x from the fraction n/d, as Math.abs(x - n / d) gives it
Dist(x, n, d) == MathAbs(DSub(x, Quotients[d][n]))

\* <<n, d>> is a fraction with a denominator of at most maxDen that is
\* nearest to x, and of all such fractions one with the least denominator
IsNearest(out, x, maxDen) ==
    /\ out[2] \in 1..maxDen
    /\ \A d \in 1..maxDen : \A n \in 0..(d + 1) :
          /\ ~DLess(Dist(x, n, d), Dist(x, out[1], out[2]))
          /\ (Dist(x, n, d) = Dist(x, out[1], out[2]) => out[2] <= d)

OtherMaxDens == {1, 7}

\* x is a proportion: 0 <= x <= 1
InUnitInterval(x) == ~DLess(x, DZero) /\ ~DLess(DOne, x)

\* C14: for a proportion x in [0,1] the displayed fraction approxFraction(x, 20)
\* has a denominator <= 20 and is nearest to x among all such fractions,
\* the least denominator winning a tie, and likewise for other maxDen; the
\* result is (0,1) for an x that is not positive or not finite.
C14_ApproxFraction ==
    Rendered =>
        /\ approxFraction(Infinity, DefaultMaxDen) = <<0, 1>>
        /\ \A i \in 1..Len(rows) :
             LET x == rows[i].prop
             IN /\ (~DIsPositive(x) => fractions[i] = <<0, 1>>)
                /\ (InUnitInterval(x) =>
                      /\ IsNearest(fractions[i], x, DefaultMaxDen)
                      /\ \A md \in OtherMaxDens :
                            IsNearest(approxFraction(x, md), x, md))

\* a rendered table with a proportion that lies exactly between two of the
\* fractions and a proportion that no fraction equals
C14_Witness ==
    /\ Rendered
    /\ \E i \in 1..Len(rows) :
          LET x == rows[i].prop
          IN /\ DIsPositive(x) /\ InUnitInterval(x)
             /\ \E d \in 1..DefaultMaxDen : \E n \in 0..d :
                   /\ Quotients[d][n] # Quotients[fractions[i][2]][fractions[i][1]]
                   /\ Dist(x, n, d) = Dist(x, fractions[i][1], fractions[i][2])
    /\ \E j \in 1..Len(rows) :
          /\ DIsPositive(rows[j].prop) /\ InUnitInterval(rows[j].prop)
          /\ fractions[j][1] > 0
          /\ Quotients[fractions[j][2]][fractions[j][1]] # rows[j].prop

\* C15: the ids of the employees in the list are pairwise distinct in every
\* state reached from the initial list by addEmployee and removeEmployee (and
\* the other events of the list).
C15_UniqueIds ==
    \A i, j \in 1..Len(employees) :
        i # j => employees[i].id # employees[j].id

\* an employee was removed and another added after it: the list holds the
\* ids 2 and 3
C15_Witness ==
    /\ Len(employees) = 2
    /\ employees[1].id = "2"
    /\ employees[2].id = "3"

\* C16: in every step, (1) a run that starts is at the calculate request and
\* the saved flag is false after it; (2) a run reaches the save request only
\* from the calculate request, with the results set from that response and
\* no error set by the step; (3) a run that ends at the calculate request
\* sets the calculation error and leaves the saved flag; (4) the saved flag
\* becomes true only in a step that ends a run at the save request without
\* an error, and not when the save response is not ok.
C16_CalculateThenSave ==
    [][/\ (Len(runs') > Len(runs) =>
             /\ runs'[Len(runs')].pc = "calculate"
             /\ isSaved' = FALSE)
       /\ (Len(runs') = Len(runs) =>
             \A i \in 1..Len(runs) :
                 (runs'[i].pc = "save" /\ runs[i].pc # "save") =>
                     /\ runs[i].pc = "calculate"
                     /\ results' = calculateResponse(runs[i].body)
                     /\ error' = error)
       /\ (Len(runs') < Len(runs) =>
             \E i \in 1..Len(runs) :
                 /\ runs' = RemoveAt(runs, i)
                 /\ (runs[i].pc = "calculate" =>
                        /\ error' \in {catchError(o) :
                                         o \in CalculateOutcomes \ {"ok"}}
                        /\ isSaved' = isSaved))
       /\ ((isSaved' /\ ~isSaved) =>
             /\ error' = error
             /\ \E i \in 1..Len(runs) :
                   runs[i].pc = "save" /\ runs' = RemoveAt(runs, i))
       /\ (\A i \in 1..Len(runs) :
             saveReturns(i, "notok") => isSaved' = isSaved)]_vars

\* a run has gone through both requests: results are set and saved
C16_Witness ==
    /\ isSaved
    /\ results # <<>>
    /\ runs = <<>>
    /\ error = ""

\* C17: in every step the hours grid has entries only for the ids of the
\* list, and the employee that addEmployee appends has no hours: every cell
\* of its grid entry is 0, so its total over the week and over all dates is 0,
\* also when its id was the id of a removed employee.
C17_NewEmployeeZeroHours ==
    [][/\ DOMAIN hoursGrid \subseteq ids(employees)
       /\ DOMAIN hoursGrid' \subseteq ids(employees')
       /\ ((loadState' = loadState /\ Len(employees') = Len(employees) + 1) =>
             LET new == employees'[Len(employees')].id
             IN /\ new \in DOMAIN hoursGrid'
                /\ \A d \in DOMAIN hoursGrid'[new] : hoursGrid'[new][d] = 0
                /\ WeekTotal(hoursGrid', weekStart', new) = 0
                /\ GridTotal(hoursGrid', new) = 0)]_vars

\* employee 2 was added by addEmployee after the week was changed and after
\* hours were entered for employee 1: it has cells for the selected week only,
\* all 0
C17_Witness ==
    /\ Len(employees) = 2
    /\ employees[1].id = "1" /\ employees[2].id = "2"
    /\ employees[2].name = "" /\ employees[2].type = "waiter"
    /\ GridTotal(hoursGrid, "1") > 0
    /\ GridTotal(hoursGrid, "2") = 0
    /\ DOMAIN hoursGrid["2"] # DOMAIN hoursGrid["1"]

\* C18: the employee list has at least one employee in every reachable
\* state, and removeEmployee on a list of one employee changes neither the
\* list nor the hours grid.
C18_ListNeverEmpty ==
    /\ [](Len(employees) >= 1)
    /\ [][\A id \in ids(employees) :
            (Len(employees) = 1 /\ removeEmployee(id)) =>
                (employees' = employees /\ hoursGrid' = hoursGrid)]_vars

\* removals have brought the list down to the one employee with id 2, which
\* has hours
C18_Witness ==
    /\ Len(employees) = 1
    /\ employees[1].id = "2"
    /\ GridTotal(hoursGrid, "2") > 0

====
